---- MODULE Spec2Model ----
(***************************************************************************)
(* pygander: row-wise / column-wise transforms (transforms.py), the       *)
(* Grouper selection helper (grouper.py) and column-name normalisation.   *)
(*                                                                         *)
(* Cell values are tagged records; Python strings are sequences of        *)
(* one-character strings so that int(), strip(), lower() and the regex    *)
(* substitutions can be computed character by character.                  *)
(***************************************************************************)
EXTENDS Integers, Sequences, FiniteSets, TLC

VARIABLES
    df,       \* the DataFrame the decorators mutate: [columns, data]
    last,     \* outcome of the last rowlogic / ctransf registration
    nops,     \* number of registrations performed so far
    cin,      \* arguments of one _apply_param_logic call
    cout,     \* its outcome
    grp,      \* the Grouper: [column_groups, dataframes]
    selres,   \* outcome of the last Grouper.sel call
    ncols,    \* df.columns of the frame given to norm_colnames
    nlast     \* record of the last norm_colnames call

vars == <<df, last, nops, cin, cout, grp, selres, ncols, nlast>>

\* ------------------------------------------------------------------ bounds
MaxStrLen == 2     \* longest raw string handed to _apply_param_logic
MaxRows == 2       \* most rows of the DataFrame
MaxOps == 2        \* most successive registrations on one DataFrame
MaxQuery == 2      \* longest list query handed to Grouper.sel
MaxCols == 3       \* most columns of the frame given to norm_colnames

\* ------------------------------------------------------------------ values
IntV(n) == [t |-> "int", i |-> n, s |-> <<>>]
StrV(s) == [t |-> "str", i |-> 0, s |-> s]
\* None / pd.NA / np.nan: everything pd.isna() answers True for
NA == [t |-> "na", i |-> 0, s |-> <<>>]
\* inspect._empty (inspect.Parameter.empty): "no annotation" / "no default"
Empty == [t |-> "empty", i |-> 0, s |-> <<>>]
\* Python None as the value of default_if_exception
None == [t |-> "none", i |-> 0, s |-> <<>>]

isna(v) == v.t = "na"

Digits == <<"0", "1", "2", "3", "4", "5", "6", "7", "8", "9">>
IsDigit(c) == \E k \in 1..10 : Digits[k] = c
DigitVal(c) == (CHOOSE k \in 1..10 : Digits[k] = c) - 1
IsSpace(c) == c = " "

RECURSIVE lstrip(_)
lstrip(s) == IF s # <<>> /\ IsSpace(Head(s)) THEN lstrip(Tail(s)) ELSE s

RECURSIVE rstrip(_)
rstrip(s) ==
    IF s # <<>> /\ IsSpace(s[Len(s)]) THEN rstrip(SubSeq(s, 1, Len(s) - 1)) ELSE s

strip(s) == rstrip(lstrip(s))

RECURSIVE DigitsToNat(_, _)
DigitsToNat(s, acc) ==
    IF s = <<>> THEN acc ELSE DigitsToNat(Tail(s), 10 * acc + DigitVal(Head(s)))

AllDigits(s) == s # <<>> /\ \A k \in 1..Len(s) : IsDigit(s[k])

\* int(value): the annotation called as a one-argument constructor.
\* An int converts to itself; a string is stripped, may carry one sign and must
\* then be all decimal digits; anything else raises.
IntConv(v) ==
    IF v.t = "int" THEN [ok |-> TRUE, val |-> v]
    ELSE IF v.t = "str" THEN
        LET b == strip(v.s)
            neg == b # <<>> /\ Head(b) = "-"
            signed == b # <<>> /\ Head(b) \in {"-", "+"}
            d == IF signed THEN Tail(b) ELSE b
        IN  IF AllDigits(d)
            THEN [ok |-> TRUE,
                  val |-> IntV(IF neg THEN 0 - DigitsToNat(d, 0) ELSE DigitsToNat(d, 0))]
            ELSE [ok |-> FALSE, val |-> v]
    ELSE [ok |-> FALSE, val |-> v]

\* param_obj.annotation(value) for the annotations the model uses
Annotate(ann, v) == IF ann = "int" THEN IntConv(v) ELSE [ok |-> FALSE, val |-> v]

\* ------------------------------------------------------- _apply_param_logic
\* A parameter: [name, annotation ("empty" | "int"), default (Empty = none)].
Param(n, a, d) == [name |-> n, annotation |-> a, default |-> d]

\* strict_typecast: True, False or "default"
StrictModes == {"True", "False", "default"}
Truthy(strict) == strict = "True"

Returned(v, how) == [status |-> "ok", val |-> v, how |-> how, param |-> "", func |-> ""]
Raised(exc, v, pn, fn) == [status |-> exc, val |-> v, how |-> "raise", param |-> pn, func |-> fn]

\* Variant: the default is returned whenever one exists, before any cast
_apply_param_logic_default_first(param_name, param_obj, value, func_name, strict_typecast) ==
    IF isna(value) \/ param_obj.default # Empty THEN Returned(param_obj.default, "na")
    ELSE IF param_obj.annotation = "empty" THEN Returned(value, "unannotated")
    ELSE LET c == Annotate(param_obj.annotation, value) IN
        IF c.ok THEN Returned(c.val, "cast")
        ELSE IF strict_typecast = "default"
            THEN Raised("ValueError", value, param_name, func_name)
        ELSE IF Truthy(strict_typecast)
            THEN Raised("TypeError", value, param_name, func_name)
        ELSE Returned(value, "as_is")

\* Variant: the truthiness test comes first, and "default" is a truthy string
_apply_param_logic_truthy_first(param_name, param_obj, value, func_name, strict_typecast) ==
    IF isna(value) THEN Returned(param_obj.default, "na")
    ELSE IF param_obj.annotation = "empty" THEN Returned(value, "unannotated")
    ELSE LET c == Annotate(param_obj.annotation, value) IN
        IF c.ok THEN Returned(c.val, "cast")
        ELSE IF strict_typecast # "False"
            THEN Raised("TypeError", value, param_name, func_name)
        ELSE Returned(value, "as_is")

_apply_param_logic(param_name, param_obj, value, func_name, strict_typecast) ==
    IF isna(value) THEN Returned(param_obj.default, "na")
    ELSE IF param_obj.annotation = "empty" THEN Returned(value, "unannotated")
    ELSE LET c == Annotate(param_obj.annotation, value) IN
        IF c.ok THEN Returned(c.val, "cast")
        ELSE IF strict_typecast = "default" THEN
            IF param_obj.default = Empty
            THEN Raised("ValueError", value, param_name, func_name)
            ELSE Returned(param_obj.default, "cast_failed_default")
        ELSE IF Truthy(strict_typecast)
            THEN Raised("TypeError", value, param_name, func_name)
        ELSE Returned(value, "as_is")

\* ------------------------------------------------------------ idle values
NoTable == [columns |-> <<>>, data |-> <<>>]
NoLast == [op |-> "none"]
NoCin == [op |-> "none"]
NoCout == [status |-> "none", val |-> None, how |-> "", param |-> "", func |-> ""]
NoGrp == [column_groups |-> <<>>, dataframes |-> <<>>]
NoSel == [status |-> "none"]
NoNorm == [op |-> "none"]

\* ------------------------------------------------ specification: coercion
StrAlphabet == {"1", "x", "-", " "}

RECURSIVE StringsUpTo(_)
StringsUpTo(n) ==
    IF n = 0 THEN {<<>>}
    ELSE LET shorter == StringsUpTo(n - 1)
         IN  shorter \cup {Append(s, c) : s \in shorter, c \in StrAlphabet}

CoerceValues ==
    {NA, IntV(0), IntV(5)} \cup {StrV(s) : s \in StringsUpTo(MaxStrLen)}

CoerceParams ==
    {Param("p", a, d) : a \in {"empty", "int"}, d \in {Empty, IntV(9)}}

CoerceInit ==
    /\ cin \in [op : {"coerce"}, param : CoerceParams, value : CoerceValues,
               strict : StrictModes]
    /\ cout = NoCout
    /\ df = NoTable /\ last = NoLast /\ nops = 0
    /\ grp = NoGrp /\ selres = NoSel
    /\ ncols = <<>> /\ nlast = NoNorm

ApplyParamLogic ==
    /\ cout.status = "none"
    /\ cout' = _apply_param_logic(cin.param.name, cin.param, cin.value, "f", cin.strict)
    /\ UNCHANGED <<cin, df, last, nops, grp, selres, ncols, nlast>>

CoerceNext == ApplyParamLogic

SpecCoerce == CoerceInit /\ [][CoerceNext]_vars

\* ------------------------------------------------------------ the DataFrame
Range(seq) == {seq[k] : k \in 1..Len(seq)}

\* len(df): every column holds one value per row
NRows(tbl) == IF tbl.columns = <<>> THEN 0 ELSE Len(tbl.data[tbl.columns[1]])

\* row.to_dict().items() of the i-th row of df.iterrows(): (column, value) pairs
\* in column order
RowItems(tbl, i) == [k \in 1..Len(tbl.columns) |-> <<tbl.columns[k], tbl.data[tbl.columns[k]][i]>>]

\* Variant: an overwritten column is dropped and appended after the last column
SetColumn_moves(tbl, name, values) ==
    [columns |-> SelectSeq(tbl.columns, LAMBDA c : c # name) \o <<name>>,
     data |-> [c \in Range(tbl.columns) \cup {name} |->
                  IF c = name THEN values ELSE tbl.data[c]]]

\* df[name] = values: replaces the column in place when it exists, appends it
\* after the last column otherwise
SetColumn(tbl, name, values) ==
    [columns |-> IF name \in Range(tbl.columns) THEN tbl.columns
                 ELSE Append(tbl.columns, name),
     data |-> [c \in Range(tbl.columns) \cup {name} |->
                  IF c = name THEN values ELSE tbl.data[c]]]

\* ------------------------------------------------- the wrapped functions
\* A wrapped function: [name, params (inspect.signature order), body].
\*   "add"      return p1 + p2
\*   "floordiv" return 10 // p1
\*   "id"       return p1
Func(n, ps, b) == [name |-> n, params |-> ps, body |-> b]

ParamNames(func) == {func.params[k].name : k \in 1..Len(func.params)}
ParamObj(func, pn) == CHOOSE p \in Range(func.params) : p.name = pn

Return(v) == [ok |-> TRUE, val |-> v, exc |-> ""]
Throw(exc) == [ok |-> FALSE, val |-> None, exc |-> exc]

\* Python's + on the values of the model
Add(x, y) ==
    IF x.t = "int" /\ y.t = "int" THEN Return(IntV(x.i + y.i))
    ELSE IF x.t = "str" /\ y.t = "str" THEN Return(StrV(x.s \o y.s))
    ELSE Throw("TypeError")

\* Python's 10 // x
FloorDiv10(x) ==
    IF x.t # "int" THEN Throw("TypeError")
    ELSE IF x.i = 0 THEN Throw("ZeroDivisionError")
    ELSE Return(IntV(10 \div x.i))

\* func(**kwargs)
Call(func, kwargs) ==
    LET p1 == kwargs[func.params[1].name] IN
    IF func.body = "add" THEN Add(p1, kwargs[func.params[2].name])
    ELSE IF func.body = "floordiv" THEN FloorDiv10(p1)
    ELSE Return(p1)

\* ------------------------------------------------------ _apply_func_to_row
\* The dict comprehension building row_params: row items in column order, the
\* ones naming a parameter coerced; the first coercion that raises ends it.
RECURSIVE RowParams(_, _, _, _, _)
RowParams(func, items, strict_typecast, k, acc) ==
    IF k > Len(items) THEN [status |-> "ok", kwargs |-> acc, err |-> NoCout]
    ELSE LET param_name == items[k][1]
             param_value == items[k][2]
         IN  IF param_name \notin ParamNames(func)
             THEN RowParams(func, items, strict_typecast, k + 1, acc)
             ELSE LET c == _apply_param_logic(param_name, ParamObj(func, param_name),
                                              param_value, func.name, strict_typecast)
                  IN  IF c.status # "ok"
                      THEN [status |-> c.status, kwargs |-> acc, err |-> c]
                      ELSE RowParams(func, items, strict_typecast, k + 1,
                                     acc @@ (param_name :> c.val))

\* Outcome of one row: stage tells where an exception left the call
\* ("bind": raised by _apply_param_logic, "call": raised by func and re-raised).
RowOutcome(status, stage, val, invoked, caught, exc) ==
    [status |-> status, stage |-> stage, val |-> val,
     invoked |-> invoked, caught |-> caught, exc |-> exc]

\* Variant: the exception of func is re-raised whatever default_if_exception is
_apply_func_to_row_reraise(func, row, strict_typecast, default_if_exception) ==
    LET row_params == RowParams(func, row, strict_typecast, 1, <<>>) IN
    IF row_params.status # "ok"
    THEN RowOutcome("raise", "bind", None, FALSE, FALSE, row_params.status)
    ELSE LET r == Call(func, row_params.kwargs) IN
         IF r.ok THEN RowOutcome("ok", "", r.val, TRUE, FALSE, "")
         ELSE RowOutcome("raise", "call", None, TRUE, FALSE, r.exc)

\* Variant: row_params is built inside the try block, so a coercion error is
\* handled like an exception of func
_apply_func_to_row_bind_in_try(func, row, strict_typecast, default_if_exception) ==
    LET row_params == RowParams(func, row, strict_typecast, 1, <<>>) IN
    IF row_params.status # "ok"
    THEN IF default_if_exception = None
         THEN RowOutcome("raise", "bind", None, FALSE, FALSE, row_params.status)
         ELSE RowOutcome("ok", "", default_if_exception, FALSE, TRUE, row_params.status)
    ELSE LET r == Call(func, row_params.kwargs) IN
         IF r.ok THEN RowOutcome("ok", "", r.val, TRUE, FALSE, "")
         ELSE IF default_if_exception = None
              THEN RowOutcome("raise", "call", None, TRUE, FALSE, r.exc)
              ELSE RowOutcome("ok", "", default_if_exception, TRUE, TRUE, r.exc)

_apply_func_to_row(func, row, strict_typecast, default_if_exception) ==
    LET row_params == RowParams(func, row, strict_typecast, 1, <<>>) IN
    IF row_params.status # "ok"
    THEN RowOutcome("raise", "bind", None, FALSE, FALSE, row_params.status)
    ELSE LET r == Call(func, row_params.kwargs) IN
         IF r.ok THEN RowOutcome("ok", "", r.val, TRUE, FALSE, "")
         ELSE IF default_if_exception = None
              THEN RowOutcome("raise", "call", None, TRUE, FALSE, r.exc)
              ELSE RowOutcome("ok", "", default_if_exception, TRUE, TRUE, r.exc)

\* ---------------------------------------------------------------- rowlogic
\* What one registration did: status "ok" or the exception that left it, the
\* rows func was invoked on (calls), the rows whose exception was replaced by
\* the fallback (caught), the values computed before the end (out).
Outcome(tbl, status, stage, missing, calls, caught, out, failrow) ==
    [df |-> tbl, status |-> status, stage |-> stage, missing |-> missing,
     calls |-> calls, caught |-> caught, out |-> out, failrow |-> failrow]

\* The list comprehension over df.iterrows()
RECURSIVE RowLoop(_, _, _, _, _, _)
RowLoop(func, tbl, default_if_exception, strict_typecast, i, acc) ==
    IF i > NRows(tbl) THEN acc
    ELSE LET r == _apply_func_to_row(func, RowItems(tbl, i), strict_typecast,
                                     default_if_exception)
             calls == IF r.invoked THEN Append(acc.calls, i) ELSE acc.calls
         IN  IF r.status # "ok"
             THEN [acc EXCEPT !.status = r.exc, !.stage = r.stage,
                              !.calls = calls, !.failrow = i]
             ELSE RowLoop(func, tbl, default_if_exception, strict_typecast, i + 1,
                          [acc EXCEPT !.calls = calls,
                                      !.caught = IF r.caught THEN @ \cup {i} ELSE @,
                                      !.out = Append(@, r.val)])

\* Variant: the values computed so far are assigned even when the pass raised
AssignColumn_partial(tbl, name, acc) == [acc EXCEPT !.df = SetColumn(tbl, name, acc.out)]

\* The column assignment that ends a pass over the rows
AssignColumn(tbl, name, acc) ==
    IF acc.status = "ok" THEN [acc EXCEPT !.df = SetColumn(tbl, name, acc.out)] ELSE acc

MissingCols(tbl, func) == ParamNames(func) \ Range(tbl.columns)

\* Variant: the overwrite check comes before the missing-columns check
rowlogic_overwrite_first(tbl, default_if_exception, overwrite_col, strict_typecast, func) ==
    LET missing_cols == MissingCols(tbl, func) IN
    IF ~overwrite_col /\ func.name \in Range(tbl.columns)
    THEN Outcome(tbl, "ValueError", "validate", {}, <<>>, {}, <<>>, 0)
    ELSE IF missing_cols # {}
    THEN Outcome(tbl, "KeyError", "validate", missing_cols, <<>>, {}, <<>>, 0)
    ELSE AssignColumn(tbl, func.name,
             RowLoop(func, tbl, default_if_exception, strict_typecast, 1,
                     Outcome(tbl, "ok", "", {}, <<>>, {}, <<>>, 0)))

rowlogic(tbl, default_if_exception, overwrite_col, strict_typecast, func) ==
    LET missing_cols == MissingCols(tbl, func) IN
    IF missing_cols # {}
    THEN Outcome(tbl, "KeyError", "validate", missing_cols, <<>>, {}, <<>>, 0)
    ELSE IF ~overwrite_col /\ func.name \in Range(tbl.columns)
    THEN Outcome(tbl, "ValueError", "validate", {}, <<>>, {}, <<>>, 0)
    ELSE AssignColumn(tbl, func.name,
             RowLoop(func, tbl, default_if_exception, strict_typecast, 1,
                     Outcome(tbl, "ok", "", {}, <<>>, {}, <<>>, 0)))

\* ----------------------------------------------------------------- ctransf
\* func(**{cname: df[cname]}) on whole columns: the body applied element by
\* element, any element's exception leaving the call
RECURSIVE ColCall(_, _, _, _)
ColCall(func, tbl, i, out) ==
    IF i > NRows(tbl) THEN [ok |-> TRUE, val |-> out, exc |-> ""]
    ELSE LET r == Call(func, [p \in ParamNames(func) |-> tbl.data[p][i]]) IN
         IF r.ok THEN ColCall(func, tbl, i + 1, Append(out, r.val))
         ELSE [ok |-> FALSE, val |-> <<>>, exc |-> r.exc]

ctransf(tbl, overwrite_col, func) ==
    LET missing_cols == MissingCols(tbl, func) IN
    IF missing_cols # {}
    THEN Outcome(tbl, "KeyError", "validate", missing_cols, <<>>, {}, <<>>, 0)
    ELSE IF ~overwrite_col /\ func.name \in Range(tbl.columns)
    THEN Outcome(tbl, "ValueError", "validate", {}, <<>>, {}, <<>>, 0)
    ELSE LET r == ColCall(func, tbl, 1, <<>>) IN
         IF r.ok
         THEN Outcome(SetColumn(tbl, func.name, r.val), "ok", "", {}, <<0>>, {}, r.val, 0)
         ELSE Outcome(tbl, r.exc, "call", {}, <<0>>, {}, <<>>, 0)

\* ------------------------------------------- specification: registrations
X == IntV(0 - 1)                 \* a configured default_if_exception
Fallbacks == {None, X}

Funcs ==
    { Func("r", <<Param("a", "int", Empty), Param("b", "int", IntV(9))>>, "add"),
      Func("q", <<Param("a", "int", Empty)>>, "floordiv"),
      Func("a", <<Param("b", "int", IntV(9))>>, "id"),
      Func("b", <<Param("c", "empty", Empty), Param("a", "empty", Empty),
                  Param("d", "empty", Empty)>>, "id") }

\* the rows a DataFrame with columns a, b is built from
Rows ==
    { <<IntV(0), StrV(<<"1">>)>>, <<IntV(5), StrV(<<"x">>)>>,
      <<IntV(0), NA>>, <<IntV(5), StrV(<<"1">>)>> }

Tables ==
    UNION { { [columns |-> <<"a", "b">>,
               data |-> [c \in {"a", "b"} |->
                           [i \in 1..n |-> IF c = "a" THEN rows[i][1] ELSE rows[i][2]]]]
              : rows \in [1..n -> Rows] } : n \in 0..MaxRows }

Init ==
    /\ df \in Tables
    /\ last = NoLast /\ nops = 0
    /\ cin = NoCin /\ cout = NoCout
    /\ grp = NoGrp /\ selres = NoSel
    /\ ncols = <<>> /\ nlast = NoNorm

Record(op, func, dflt, overwrite, strict, res) ==
    [op |-> op, func |-> func, default_if_exception |-> dflt,
     overwrite_col |-> overwrite, strict_typecast |-> strict,
     status |-> res.status, stage |-> res.stage, missing |-> res.missing,
     calls |-> res.calls, caught |-> res.caught, out |-> res.out,
     failrow |-> res.failrow]

RowLogic ==
    /\ nops < MaxOps
    /\ \E func \in Funcs, dflt \in Fallbacks, overwrite \in BOOLEAN, strict \in StrictModes :
          LET res == rowlogic(df, dflt, overwrite, strict, func) IN
          /\ df' = res.df
          /\ last' = Record("rowlogic", func, dflt, overwrite, strict, res)
    /\ nops' = nops + 1
    /\ UNCHANGED <<cin, cout, grp, selres, ncols, nlast>>

CTransf ==
    /\ nops < MaxOps
    /\ \E func \in Funcs, overwrite \in BOOLEAN :
          LET res == ctransf(df, overwrite, func) IN
          /\ df' = res.df
          /\ last' = Record("ctransf", func, None, overwrite, "False", res)
    /\ nops' = nops + 1
    /\ UNCHANGED <<cin, cout, grp, selres, ncols, nlast>>

Next == RowLogic \/ CTransf

Spec == Init /\ [][Next]_vars

\* ----------------------------------------------------------------- Grouper
\* Column labels and keys are one-letter or short names; Python compares them
\* as strings, which for the labels of the model is their place in LabelOrder.
LabelOrder == <<"a", "b", "c", "rowid", "target">>
Rank(c) == CHOOSE k \in 1..Len(LabelOrder) : LabelOrder[k] = c
StrLess(x, y) == Rank(x) < Rank(y)

\* sorted(set): repeatedly the smallest remaining element
RECURSIVE sorted(_)
sorted(S) ==
    IF S = {} THEN <<>>
    ELSE LET m == CHOOSE x \in S : \A y \in S : x = y \/ StrLess(x, y)
         IN  <<m>> \o sorted(S \ {m})

\* A dict preserves insertion order: a sequence of [key, val] with distinct keys
Keys(data) == {data[k].key : k \in 1..Len(data)}
Lookup(data, key) == (CHOOSE e \in Range(data) : e.key = key).val
Values(data) == [k \in 1..Len(data) |-> data[k].val]

\* A query: None, one key, a list of keys, or anything else
QNone == [k |-> "none", s |-> "", l |-> <<>>]
QStr(n) == [k |-> "str", s |-> n, l |-> <<>>]
QList(ns) == [k |-> "list", s |-> "", l |-> ns]
QOther == [k |-> "other", s |-> "", l |-> <<>>]

Found(v) == [status |-> "ok", val |-> v, missing |-> <<>>]
NotFound(exc, keys) == [status |-> exc, val |-> <<>>, missing |-> keys]

\* Variant: the unique labels are returned in the order they were met
RECURSIVE _agg_str_list_unsorted(_)
_agg_str_list_unsorted(a) ==
    IF a = <<>> THEN <<>>
    ELSE LET rest == _agg_str_list_unsorted(SubSeq(a, 1, Len(a) - 1))
         IN  rest \o SelectSeq(a[Len(a)], LAMBDA c : c \notin Range(rest))

_agg_str_list(a) ==
    LET unique_str == UNION {Range(a[k]) : k \in 1..Len(a)} IN sorted(unique_str)

\* A DataFrame of the Grouper: its column labels and its index (row labels)
Frame(cols, idx) == [columns |-> cols, index |-> idx]

\* pd.concat of one or more frames along the rows: the rows in the order of the
\* frames, the columns in the order they are first met
RECURSIVE concat(_)
concat(frames) ==
    IF Len(frames) = 1 THEN frames[1]
    ELSE LET head == concat(SubSeq(frames, 1, Len(frames) - 1))
             f == frames[Len(frames)]
         IN  Frame(head.columns \o SelectSeq(f.columns, LAMBDA c : c \notin Range(head.columns)),
                   head.index \o f.index)

\* agg is the aggregation handed to _aggvals, called by name
Apply(agg, values) ==
    IF agg = "_agg_str_list" THEN _agg_str_list(values) ELSE concat(values)

_aggvals(data, query, agg) ==
    IF query.k = "none" THEN Found(Apply(agg, Values(data)))
    ELSE IF query.k = "str" THEN
        IF query.s \in Keys(data) THEN Found(Lookup(data, query.s))
        ELSE NotFound("KeyError", <<query.s>>)
    ELSE IF query.k = "list" THEN
        IF \A j \in 1..Len(query.l) : query.l[j] \in Keys(data)
        THEN Found(Apply(agg, [j \in 1..Len(query.l) |-> Lookup(data, query.l[j])]))
        ELSE NotFound("KeyError", SelectSeq(query.l, LAMBDA qkey : qkey \notin Keys(data)))
    ELSE NotFound("ValueError", <<>>)

SelOutcome(status, stage, missing, cols, idx) ==
    [status |-> status, stage |-> stage, missing |-> missing,
     columns |-> cols, index |-> idx]

\* Grouper.sel: sel_dfs[sel_cols]
sel(self, cg, dfq) ==
    LET sel_cols == _aggvals(self.column_groups, cg, "_agg_str_list") IN
    IF sel_cols.status # "ok"
    THEN SelOutcome(sel_cols.status, "cg", sel_cols.missing, <<>>, <<>>)
    ELSE LET sel_dfs == _aggvals(self.dataframes, dfq, "pd.concat") IN
         IF sel_dfs.status # "ok"
         THEN SelOutcome(sel_dfs.status, "df", sel_dfs.missing, <<>>, <<>>)
         ELSE IF Range(sel_cols.val) \subseteq Range(sel_dfs.val.columns)
         THEN SelOutcome("ok", "", <<>>, sel_cols.val, sel_dfs.val.index)
         ELSE SelOutcome("KeyError", "columns",
                         SelectSeq(sel_cols.val, LAMBDA c : c \notin Range(sel_dfs.val.columns)),
                         <<>>, <<>>)

\* ------------------------------------------------ specification: Grouper
Entry(k, v) == [key |-> k, val |-> v]

AllColumns == <<"rowid", "a", "b", "c", "target">>

Groupers ==
    LET groups1 == << Entry("rowid", <<"rowid">>), Entry("x", <<"c", "a", "b">>),
                      Entry("y", <<"target">>) >>
        groups2 == << Entry("x", <<"b", "a">>), Entry("y", <<"a", "target", "a">>) >>
        frames1 == << Entry("train", Frame(AllColumns, <<1, 2>>)),
                      Entry("test", Frame(AllColumns, <<4, 5>>)),
                      Entry("val", Frame(AllColumns, <<3>>)) >>
        frames2 == << Entry("val", Frame(AllColumns, <<3>>)),
                      Entry("train", Frame(AllColumns, <<1, 2>>)) >>
    IN  [column_groups : {groups1, groups2}, dataframes : {frames1, frames2}]

RECURSIVE ListsUpTo(_, _)
ListsUpTo(S, n) ==
    IF n = 0 THEN {<<>>}
    ELSE LET shorter == ListsUpTo(S, n - 1)
         IN  shorter \cup {Append(l, x) : l \in shorter, x \in S}

Queries(names, lists) ==
    {QNone, QOther} \cup {QStr(n) : n \in names} \cup {QList(l) : l \in lists}

GroupNames == {"x", "y", "z"}
FrameNames == {"train", "test", "nope"}

\* pd.concat needs at least one frame: list queries for frames are not empty
CgQueries == Queries(GroupNames, ListsUpTo(GroupNames, MaxQuery))
DfQueries == Queries(FrameNames, ListsUpTo(FrameNames, MaxQuery) \ {<<>>})

SelInit ==
    /\ grp \in Groupers
    /\ selres = NoSel
    /\ df = NoTable /\ last = NoLast /\ nops = 0
    /\ cin = NoCin /\ cout = NoCout
    /\ ncols = <<>> /\ nlast = NoNorm

Sel ==
    /\ selres.status = "none"
    /\ \E cg \in CgQueries, dfq \in DfQueries :
          selres' = [cg |-> cg, df |-> dfq, res |-> sel(grp, cg, dfq), status |-> "done"]
    /\ UNCHANGED <<grp, df, last, nops, cin, cout, ncols, nlast>>

SelNext == Sel

SpecSel == SelInit /\ [][SelNext]_vars

\* ----------------------------------------------------------- norm_colnames
Lowercase == << "a", "b", "c", "d", "e", "f", "g", "h", "i", "j", "k", "l", "m",
                "n", "o", "p", "q", "r", "s", "t", "u", "v", "w", "x", "y", "z" >>
Uppercase == << "A", "B", "C", "D", "E", "F", "G", "H", "I", "J", "K", "L", "M",
                "N", "O", "P", "Q", "R", "S", "T", "U", "V", "W", "X", "Y", "Z" >>

IsLower(c) == \E k \in 1..26 : Lowercase[k] = c
IsUpper(c) == \E k \in 1..26 : Uppercase[k] = c
lower(c) == IF IsUpper(c) THEN Lowercase[CHOOSE k \in 1..26 : Uppercase[k] = c] ELSE c

\* [0-9a-zA-Z_]
IsIdentChar(c) == IsDigit(c) \/ IsLower(c) \/ IsUpper(c) \/ c = "_"

_normalize_column_name(s) ==
    LET s1 == [k \in 1..Len(strip(s)) |-> IF IsSpace(strip(s)[k]) THEN "_" ELSE strip(s)[k]]
        s2 == SelectSeq(s1, IsIdentChar)
        s3 == IF s2 # <<>> /\ IsDigit(Head(s2)) THEN <<"_">> \o s2 ELSE s2
        s4 == strip(s3)
    IN  [k \in 1..Len(s4) |-> lower(s4[k])]

\* str(n) for n >= 0
RECURSIVE DecStr(_)
DecStr(n) == IF n < 10 THEN <<Digits[n + 1]>> ELSE DecStr(n \div 10) \o <<Digits[(n % 10) + 1]>>

\* seen[col] when the k-th normalized column is reached: how many earlier
\* columns normalized to the same name
Seen(normalized_columns, k) ==
    Cardinality({j \in 1..(k - 1) : normalized_columns[j] = normalized_columns[k]})

norm_colnames(columns) ==
    LET normalized_columns == [k \in 1..Len(columns) |-> _normalize_column_name(columns[k])]
    IN  [k \in 1..Len(columns) |->
            IF Seen(normalized_columns, k) = 0 THEN normalized_columns[k]
            ELSE normalized_columns[k] \o <<"_">> \o DecStr(Seen(normalized_columns, k))]

\* ------------------------------------------ specification: norm_colnames
RawLabels ==
    { <<"x">>, <<"X", " ">>, <<"x", "_", "1">>, <<"x", " ", "1">>, <<"1">>, <<"-", "x">> }

NormInit ==
    /\ ncols \in ListsUpTo(RawLabels, MaxCols)
    /\ nlast = NoNorm
    /\ df = NoTable /\ last = NoLast /\ nops = 0
    /\ cin = NoCin /\ cout = NoCout
    /\ grp = NoGrp /\ selres = NoSel

NormColnames ==
    /\ nlast.op = "none"
    /\ ncols' = norm_colnames(ncols)
    /\ nlast' = [op |-> "norm_colnames", before |-> ncols]
    /\ UNCHANGED <<df, last, nops, cin, cout, grp, selres>>

NormNext == NormColnames

SpecNorm == NormInit /\ [][NormNext]_vars

\* --------------------------------------------------- coercion properties

C4_AbsentValue ==
    (cout.status # "none" /\ isna(cin.value)) =>
        /\ cout.status = "ok"
        /\ cout.val = IF cin.param.default # Empty THEN cin.param.default ELSE cin.value

\* ====================================================================
\* Properties
\* ====================================================================

\* What the claims expect, written from the table before the call:
\* the keyword arguments of row i, each parameter coerced on its own
CoercedArg(func, tbl, i, pn, strict) ==
    _apply_param_logic(pn, ParamObj(func, pn), tbl.data[pn][i], func.name, strict)

BindingRaises(func, tbl, i, strict) ==
    \E pn \in ParamNames(func) : CoercedArg(func, tbl, i, pn, strict).status # "ok"

ExpectedKwargs(func, tbl, i, strict) ==
    [pn \in ParamNames(func) |-> CoercedArg(func, tbl, i, pn, strict).val]

Validates(func, tbl, overwrite) ==
    /\ ParamNames(func) \subseteq Range(tbl.columns)
    /\ overwrite \/ func.name \notin Range(tbl.columns)

UpTo(n) == [k \in 1..n |-> k]

\* C1: a rowlogic registration either processes every row and assigns the
\* whole output column at once, or raises and leaves the DataFrame exactly as
\* it was, however many rows had been computed before the exception.
C1_AllOrNothing ==
    [][ last'.op = "rowlogic" =>
          \/ /\ last'.status = "ok"
             /\ last'.calls = UpTo(NRows(df))
             /\ Len(last'.out) = NRows(df)
             /\ df'.data[last'.func.name] = last'.out
          \/ /\ last'.status # "ok"
             /\ df' = df ]_vars

\* C1 witness: func raised on the second row, with no fallback, after the first
\* row was computed; the output column was not created.
C1_Witness ==
    /\ last.op = "rowlogic" /\ last.stage = "call" /\ last.failrow = 2
    /\ last.calls = <<1, 2>> /\ Len(last.out) = 1
    /\ last.func.name \notin Range(df.columns)

\* C2: with a fallback X configured and coercion succeeding on every row, no
\* exception leaves the registration, func is invoked on every row in order,
\* and the output column holds X exactly where func raised and func's return
\* value everywhere else.
C2_FallbackContainment ==
    [][ ( /\ last'.op = "rowlogic"
          /\ last'.default_if_exception # None
          /\ Validates(last'.func, df, last'.overwrite_col)
          /\ \A i \in 1..NRows(df) :
                ~BindingRaises(last'.func, df, i, last'.strict_typecast) )
        => /\ last'.status = "ok"
           /\ last'.calls = UpTo(NRows(df))
           /\ \A i \in 1..NRows(df) :
                 LET normal == Call(last'.func,
                                    ExpectedKwargs(last'.func, df, i, last'.strict_typecast))
                 IN  /\ (i \in last'.caught) <=> ~normal.ok
                     /\ df'.data[last'.func.name][i] =
                           IF normal.ok THEN normal.val ELSE last'.default_if_exception
      ]_vars

\* C2 witness: a completed registration whose function raised on some rows but
\* not on all of them.
C2_Witness ==
    /\ last.op = "rowlogic" /\ last.status = "ok" /\ last.default_if_exception = X
    /\ last.caught = {1} /\ Len(last.out) = 2
    /\ df.data[last.func.name][1] = X /\ df.data[last.func.name][2] # X

\* C5: rowlogic and ctransf validate before anything else: a parameter that is
\* no column raises KeyError naming every such parameter; otherwise an existing
\* column named after func raises ValueError when overwrite_col is False; both
\* leave func uninvoked and the DataFrame unchanged, and the missing-columns
\* check wins when both apply.
C5_ValidationFailFast ==
    [][ last'.op \in {"rowlogic", "ctransf"} =>
          LET func == last'.func
              missing == {pn \in ParamNames(func) : pn \notin Range(df.columns)}
          IN  /\ missing # {} =>
                    /\ last'.status = "KeyError" /\ last'.missing = missing
                    /\ last'.calls = <<>> /\ df' = df
              /\ (missing = {} /\ ~last'.overwrite_col /\ func.name \in Range(df.columns)) =>
                    /\ last'.status = "ValueError" /\ last'.stage = "validate"
                    /\ last'.calls = <<>> /\ df' = df
      ]_vars

\* C5 witness: both checks apply (two parameters are no columns, the function
\* is named after a column, overwrite_col is False) and KeyError was raised.
C5_Witness ==
    /\ last.op = "ctransf" /\ last.status = "KeyError"
    /\ last.missing = {"c", "d"}
    /\ ~last.overwrite_col /\ last.func.name \in Range(df.columns)

\* C6: a successful rowlogic registration keeps the number of rows and every
\* other column, keeps the column order (the new column last, an overwritten
\* one in place), and the i-th value of the output column is the outcome of
\* _apply_func_to_row on the i-th row; at every registration of a sequence.
C6_SuccessfulRegistration ==
    [][ (last'.op = "rowlogic" /\ last'.status = "ok") =>
          LET func == last'.func IN
          /\ NRows(df') = NRows(df)
          /\ \A c \in Range(df.columns) \ {func.name} : df'.data[c] = df.data[c]
          /\ df'.columns = IF func.name \in Range(df.columns) THEN df.columns
                           ELSE df.columns \o <<func.name>>
          /\ Len(df'.data[func.name]) = NRows(df)
          /\ \A i \in 1..NRows(df) :
                df'.data[func.name][i] =
                    _apply_func_to_row(func, RowItems(df, i), last'.strict_typecast,
                                       last'.default_if_exception).val
      ]_vars

\* C6 witness: the second of two registrations overwrote column a in place,
\* after the first had appended a column.
C6_Witness ==
    /\ nops = 2 /\ last.op = "rowlogic" /\ last.status = "ok"
    /\ last.func.name = "a" /\ Len(df.columns) = 3 /\ df.columns[1] = "a"
    /\ NRows(df) = 2

\* The table of the example: a = [0, 5], b = ["1", "x"], after r(a: int,
\* b: int = 9) = a + b was registered with strict_typecast="default".
ExampleRegistered ==
    /\ last.op = "rowlogic" /\ last.status = "ok"
    /\ last.func.name = "r" /\ last.strict_typecast = "default"
    /\ df.data["a"] = <<IntV(0), IntV(5)>>
    /\ df.data["b"] = <<StrV(<<"1">>), StrV(<<"x">>)>>

\* C7 as stated: in the example b falls back to 9 on both rows, r = [9, 14].
C7_ExampleAsStated == ExampleRegistered => df.data["r"] = <<IntV(9), IntV(14)>>

\* C7 as amended: in the example "1" converts to 1 on row 0 and only "x" on
\* row 1 falls back to the default 9, so r = [1, 14].
C7_ExampleAmended == ExampleRegistered => df.data["r"] = <<IntV(1), IntV(14)>>

\* C7 witness: the example was registered and r holds [1, 14].
C7_Witness == ExampleRegistered /\ df.data["r"] = <<IntV(1), IntV(14)>>

\* C10: a coercion error (TypeError under strict_typecast=True, ValueError
\* under "default" without a default) is raised while binding row k, before
\* func is invoked on it, is not replaced by default_if_exception, ends the
\* pass over the rows and leaves the DataFrame unchanged.
C10_CoercionErrorsAreGlobal ==
    [][ (last'.op = "rowlogic" /\ Validates(last'.func, df, last'.overwrite_col)) =>
          LET func == last'.func
              strict == last'.strict_typecast
              bad == {i \in 1..NRows(df) : BindingRaises(func, df, i, strict)}
              k == last'.failrow
          IN  /\ (last'.default_if_exception # None /\ bad # {}) =>
                    /\ last'.stage = "bind"
                    /\ \A i \in bad : k <= i
              /\ last'.stage = "bind" =>
                    /\ k \in bad
                    /\ last'.status = (IF strict = "True" THEN "TypeError" ELSE "ValueError")
                    /\ strict # "False"
                    /\ last'.calls = UpTo(k - 1)
                    /\ df' = df
      ]_vars

\* C10 witness: with a fallback configured, the first row was computed and the
\* second row's coercion raised TypeError.
C10_Witness ==
    /\ last.op = "rowlogic" /\ last.stage = "bind" /\ last.status = "TypeError"
    /\ last.default_if_exception = X /\ last.failrow = 2 /\ last.calls = <<1>>
    /\ last.func.name \notin Range(df.columns)

\* ------------------------------------------------------ Grouper properties
StrictlySorted(seq) == \A j \in 1..(Len(seq) - 1) : StrLess(seq[j], seq[j + 1])

RECURSIVE RowsOf(_, _)
RowsOf(data, keys) ==
    IF keys = <<>> THEN <<>> ELSE Lookup(data, Head(keys)).index \o RowsOf(data, Tail(keys))

RegisteredKeys(data) == [k \in 1..Len(data) |-> data[k].key]

GroupColumns(data, keys) == UNION {Range(Lookup(data, k)) : k \in keys}

C9_NormalizedNamesUnique ==
    nlast.op = "norm_colnames" =>
        LET normalized == [k \in 1..Len(nlast.before) |-> _normalize_column_name(nlast.before[k])]
        IN  /\ \A j, k \in 1..Len(ncols) : j # k => ncols[j] # ncols[k]
            /\ \A k \in 1..Len(ncols) :
                  LET earlier == Cardinality({j \in 1..(k - 1) : normalized[j] = normalized[k]})
                  IN  ncols[k] = IF earlier = 0 THEN normalized[k]
                                 ELSE normalized[k] \o <<"_">> \o DecStr(earlier)

====
